---- MODULE Spec2Model ----
(***************************************************************************)
(* ts-switch-case: the dispatcher switchCase (src/src/switchCase.ts), its  *)
(* chainable builder, and the cycle guard isCyclic (src/src/utils.ts).     *)
(*                                                                         *)
(* JavaScript values are records tagged by "t".  A function value is a     *)
(* name; what calling it does is given by Apply.  Handlers and default     *)
(* handlers are symbolic: calling h1 with the arguments <<x>> yields the   *)
(* value Ret("h1", <<x>>), so a result tells which function produced it    *)
(* and from which arguments.  Every evaluation also yields the list of the *)
(* calls it made ("calls"), in order.                                      *)
(***************************************************************************)
EXTENDS Integers, Sequences, FiniteSets, TLC

\* Bounds of the model.
MaxEntries == 2
MaxCases == 2
MaxNodes == 2
MaxTopCalls == 2

VARIABLES op, prevOp, value, arg2, arg3, arg4, hasBuilder, cases, defaultFn, callArgs, outcome,
          heap, stack, seen, logs, ret, ncalls, activations

dispatcherVars ==
  <<op, prevOp, value, arg2, arg3, arg4, hasBuilder, cases, defaultFn, callArgs, outcome>>

cycleVars == <<heap, stack, seen, logs, ret, ncalls, activations>>

vars == <<dispatcherVars, cycleVars>>

----------------------------------------------------------------------------
\* JavaScript values

Undefined == [t |-> "undefined"]

Null == [t |-> "null"]

Bool(b) == [t |-> "boolean", b |-> b]

Str(s) == [t |-> "string", s |-> s]

Num(n) == [t |-> "number", n |-> n]

Fn(id) == [t |-> "function", id |-> id]

\* A plain object: its own properties, <<key, value>> pairs in insertion order.
Obj(props) == [t |-> "object", props |-> props]

Arr(items) == [t |-> "array", items |-> items]

\* The value a symbolic function returns.
Ret(id, args) == [t |-> "result", id |-> id, args |-> args]

\* The builder object of the chainable syntax ("this" in its methods).
Builder == [t |-> "builder", id |-> "builder"]

TypeError == [t |-> "error", name |-> "TypeError", message |-> ""]

Error(message) == [t |-> "error", name |-> "Error", message |-> message]

Return(v, log) == [kind |-> "return", val |-> v, calls |-> log]

Throw(e, log) == [kind |-> "throw", val |-> e, calls |-> log]

\* typeof v
typeof(v) ==
  IF v.t \in {"null", "object", "array", "builder", "error"} THEN "object"
  ELSE v.t

\* ToBoolean(v): the test of an if statement.
Truthy(v) ==
  CASE v.t \in {"undefined", "null"} -> FALSE
    [] v.t = "boolean" -> v.b
    [] v.t = "string" -> v.s # ""
    [] v.t = "number" -> v.n # 0
    [] OTHER -> TRUE

\* a === b.  Two objects of the model are the same object exactly when they
\* have the same structure.
StrictEq(a, b) == a = b

Digit(d) ==
  CASE d = 0 -> "0" [] d = 1 -> "1" [] d = 2 -> "2" [] d = 3 -> "3" [] d = 4 -> "4"
    [] d = 5 -> "5" [] d = 6 -> "6" [] d = 7 -> "7" [] d = 8 -> "8" [] OTHER -> "9"

RECURSIVE NumStr(_)
NumStr(n) ==
  IF n < 0 THEN "-" \o NumStr(0 - n)
  ELSE IF n < 10 THEN Digit(n)
  ELSE NumStr(n \div 10) \o Digit(n % 10)

\* String(v)
String(v) ==
  CASE v.t = "string" -> v.s
    [] v.t = "number" -> NumStr(v.n)
    [] v.t = "boolean" -> (IF v.b THEN "true" ELSE "false")
    [] v.t = "undefined" -> "undefined"
    [] v.t = "null" -> "null"
    [] v.t = "function" -> "function " \o v.id
    [] OTHER -> "[object Object]"

\* The number an integer-like property key stands for, -1 for any other key.
IndexOf(k) ==
  CASE k = "0" -> 0 [] k = "1" -> 1 [] k = "2" -> 2 [] k = "3" -> 3 [] OTHER -> -1

RECURSIVE Ascending(_)
Ascending(S) ==
  IF S = {} THEN <<>>
  ELSE LET m == CHOOSE x \in S : \A y \in S : x <= y
       IN <<m>> \o Ascending(S \ {m})

InsertionKeys(o) == [i \in 1..Len(o.props) |-> o.props[i][1]]

\* Object.keys(o): the integer-like keys in ascending order, then the other
\* keys in insertion order.
ObjectKeys(o) ==
  LET ks == InsertionKeys(o)
      idx == Ascending({IndexOf(ks[i]) : i \in 1..Len(ks)} \ {-1})
  IN [i \in 1..Len(idx) |-> NumStr(idx[i])]
       \o SelectSeq(ks, LAMBDA k : IndexOf(k) = -1)

HasOwn(o, k) == o.t = "object" /\ \E i \in 1..Len(o.props) : o.props[i][1] = k

\* What every object inherits from Object.prototype.
ObjectPrototype(k) ==
  CASE k = "toString" -> Fn("Object.prototype.toString")
    [] k = "constructor" -> Fn("Object")
    [] OTHER -> Undefined

\* What a string o inherits from String.prototype: o.match is the method
\* String.prototype.match, here together with the string it is read from
\* (the receiver of the call c.match(value)).
StringPrototype(o, k) ==
  IF k = "match"
  THEN [t |-> "function", id |-> "String.prototype.match", this |-> o]
  ELSE ObjectPrototype(k)

\* o[k] for o neither null nor undefined: the own property, else the
\* inherited one, else undefined.
Get(o, k) ==
  IF HasOwn(o, k)
  THEN o.props[CHOOSE i \in 1..Len(o.props) : o.props[i][1] = k][2]
  ELSE IF o.t = "string" THEN StringPrototype(o, k)
  ELSE ObjectPrototype(k)

\* Whether o[k] can be read at all (it throws a TypeError otherwise).
Readable(o) == o.t \notin {"null", "undefined"}

RECURSIVE JSONstringify(_)
RECURSIVE JSONmembers(_, _, _, _)
\* JSON.stringify(v): a string, or undefined for undefined and functions.
JSONstringify(v) ==
  CASE v.t = "string" -> Str("\"" \o v.s \o "\"")
    [] v.t = "number" -> Str(NumStr(v.n))
    [] v.t = "boolean" -> Str(IF v.b THEN "true" ELSE "false")
    [] v.t = "null" -> Str("null")
    [] v.t = "object" -> Str("{" \o JSONmembers(v, ObjectKeys(v), 1, "") \o "}")
    [] OTHER -> Undefined

JSONmembers(o, ks, i, sep) ==
  IF i > Len(ks) THEN ""
  ELSE LET j == JSONstringify(Get(o, ks[i]))
       IN IF j = Undefined THEN JSONmembers(o, ks, i + 1, sep)
          ELSE sep \o "\"" \o ks[i] \o "\":" \o j.s \o JSONmembers(o, ks, i + 1, ",")

Arg(args, i) == IF Len(args) >= i THEN args[i] ELSE Undefined

\* s contains p.
Contains(s, p) ==
  \E i \in 1..(Len(s) - Len(p) + 1) : SubSeq(s, i, i + Len(p) - 1) = p

\* The characters the pattern "[object Object]" stands for: it is a
\* character class.
ObjectClass == {"o", "b", "j", "e", "c", "t", " ", "O"}

\* str.match(regexp) for a regexp that is not a RegExp: the result of
\* matching new RegExp(regexp) against str, an array holding the matched
\* text, or null.  new RegExp(undefined) is the empty pattern; the other
\* patterns are String(regexp), which for the values of the model is plain
\* text or, for an object, the character class "[object Object]".
StringMatch(str, regexp) ==
  LET pattern == IF regexp = Undefined THEN "" ELSE String(regexp)
  IN IF pattern = "[object Object]"
     THEN LET hits == {i \in 1..Len(str.s) : SubSeq(str.s, i, i) \in ObjectClass}
          IN IF hits = {} THEN Null
             ELSE LET i == CHOOSE j \in hits : \A k \in hits : j <= k
                  IN Arr(<<Str(SubSeq(str.s, i, i))>>)
     ELSE IF Contains(str.s, pattern) THEN Arr(<<Str(pattern)>>)
     ELSE Null

\* What calling the function f with the arguments args returns.
Apply(f, args) ==
  CASE f.id = "pAny" -> Bool(TRUE)
    [] f.id = "pIsA" -> Bool(StrictEq(Arg(args, 1), Str("a")))
    [] f.id = "Object.prototype.toString" -> Str("[object Undefined]")
    [] f.id = "String.prototype.match" -> StringMatch(f.this, Arg(args, 1))
    [] f.id = "Object" ->
         (IF typeof(Arg(args, 1)) = "object" /\ Arg(args, 1) # Null
          THEN Arg(args, 1) ELSE Obj(<<>>))
    [] OTHER -> Ret(f.id, args)

\* f(args...): a TypeError when f is not callable.
Call(f, args, log) ==
  IF typeof(f) = "function"
  THEN Return(Apply(f, args), Append(log, [fn |-> f, args |-> args]))
  ELSE Throw(TypeError, log)

----------------------------------------------------------------------------
\* The dispatcher

\* typeof handler === "function" ? handler(args...) : handler
Resolve(handler, args, log) ==
  IF typeof(handler) = "function" THEN Call(handler, args, log)
  ELSE Return(handler, log)

\* `No matching case for value: ${JSON.stringify(value)}`
NoMatchValue(v) == Error("No matching case for value: " \o String(JSONstringify(v)))

\* `No matching case for ${String(discriminator)}: ${discriminatorValue}`
NoMatchDiscriminator(discriminator, discriminatorValue) ==
  Error("No matching case for " \o String(discriminator) \o ": " \o discriminatorValue)

\* if (defaultFn) return defaultFn(value); throw new Error(...)
OrDefault(v, fn, error, log) ==
  IF Truthy(fn) THEN Call(fn, <<v>>, log) ELSE Throw(error, log)

\* The for loop of builder.run over the builder's cases, from the i-th on.
RECURSIVE runLoop(_, _, _, _)
runLoop(v, cs, i, log) ==
  IF i > Len(cs) THEN Return(Undefined, log) @@ [matched |-> FALSE]
  ELSE LET match == cs[i].match
           handler == cs[i].handler
           isMatch == IF typeof(match) = "function" THEN Call(match, <<v>>, log)
                      ELSE Return(Bool(StrictEq(match, v)), log)
       IN IF isMatch.kind = "throw" THEN isMatch @@ [matched |-> TRUE]
          ELSE IF Truthy(isMatch.val)
               THEN Resolve(handler, <<v>>, isMatch.calls) @@ [matched |-> TRUE]
               ELSE runLoop(v, cs, i + 1, isMatch.calls)

Strip(r) == [kind |-> r.kind, val |-> r.val, calls |-> r.calls]

\* builder.run()
run(v, cs, fn) ==
  LET r == runLoop(v, cs, 1, <<>>)
  IN IF r.matched THEN Strip(r)
     ELSE OrDefault(v, fn, NoMatchValue(v), r.calls)

\* exhaustive() as a run() that ignores the default handler.
exhaustive_ignoresDefault(v, cs, fn) == run(v, cs, Undefined)

\* builder.exhaustive(): return this.run()
exhaustive(v, cs, fn) == run(v, cs, fn)

\* case() putting the new entry in front (cases.unshift).
casePush_unshift(cs, match, handler) == <<[match |-> match, handler |-> handler]>> \o cs

\* builder.case(match, handler): cases.push({ match, handler })
casePush(cs, match, handler) == Append(cs, [match |-> match, handler |-> handler])

\* builder.case and builder.default: return this
returnThis(this) == Return(this, <<>>)

\* builder.default(handler): defaultFn = handler
defaultSet(fn, handler) == handler

\* The for loop of the array-based form over the entries, from the i-th on.
\* An entry that is null or undefined cannot be destructured.
\* The loop of the array-based form with the match rule of builder.run:
\* literal equality for a match that is not a function.
RECURSIVE arrayLoop_literal(_, _, _, _)
arrayLoop_literal(v, items, i, log) ==
  IF i > Len(items) THEN Return(Undefined, log) @@ [matched |-> FALSE]
  ELSE IF ~Readable(items[i]) THEN Throw(TypeError, log) @@ [matched |-> TRUE]
  ELSE LET match == Get(items[i], "match")
           handler == Get(items[i], "handler")
           isMatch == IF typeof(match) = "function" THEN Call(match, <<v>>, log)
                      ELSE Return(Bool(StrictEq(match, v)), log)
       IN IF isMatch.kind = "throw" THEN isMatch @@ [matched |-> TRUE]
          ELSE IF Truthy(isMatch.val)
               THEN Resolve(handler, <<v>>, isMatch.calls) @@ [matched |-> TRUE]
               ELSE arrayLoop_literal(v, items, i + 1, isMatch.calls)

RECURSIVE arrayLoop(_, _, _, _)
arrayLoop(v, items, i, log) ==
  IF i > Len(items) THEN Return(Undefined, log) @@ [matched |-> FALSE]
  ELSE IF ~Readable(items[i]) THEN Throw(TypeError, log) @@ [matched |-> TRUE]
  ELSE LET match == Get(items[i], "match")
           handler == Get(items[i], "handler")
           isMatch == Call(match, <<v>>, log)
       IN IF isMatch.kind = "throw" THEN isMatch @@ [matched |-> TRUE]
          ELSE IF Truthy(isMatch.val)
               THEN Resolve(handler, <<v>>, isMatch.calls) @@ [matched |-> TRUE]
               ELSE arrayLoop(v, items, i + 1, isMatch.calls)

\* The for loop over Object.keys(cases) of the object-based form.
RECURSIVE objectLoop(_, _, _, _, _)
objectLoop(v, cs, keys, i, log) ==
  IF i > Len(keys) THEN Return(Undefined, log) @@ [matched |-> FALSE]
  ELSE LET c == Get(cs, keys[i])
       IN IF typeof(c) = "function" THEN objectLoop(v, cs, keys, i + 1, log)
          ELSE IF ~Readable(c) THEN Throw(TypeError, log) @@ [matched |-> TRUE]
          ELSE LET cmatch == Get(c, "match")
                   chandler == Get(c, "handler")
                   match == IF typeof(cmatch) = "function" THEN Call(cmatch, <<v>>, log)
                            ELSE Return(Bool(StrictEq(cmatch, v)), log)
               IN IF match.kind = "throw" THEN match @@ [matched |-> TRUE]
                  ELSE IF Truthy(match.val)
                       THEN Resolve(chandler, <<v>>, match.calls) @@ [matched |-> TRUE]
                       ELSE objectLoop(v, cs, keys, i + 1, match.calls)

\* switchCase(value, cases: array, defaultHandler?)
switchCaseArray(v, cs, fn) ==
  LET r == arrayLoop(v, cs.items, 1, <<>>)
  IN IF r.matched THEN Strip(r)
     ELSE OrDefault(v, fn, NoMatchValue(v), r.calls)

\* switchCaseObject with the literal handler given the subject.
switchCaseObject_passesValue(v, cs, fn) ==
  IF ~Readable(cs) THEN Throw(TypeError, <<>>)
  ELSE LET literalHandler == Get(cs, String(v))
       IN IF literalHandler # Undefined THEN Resolve(literalHandler, <<v>>, <<>>)
          ELSE LET r == objectLoop(v, cs, ObjectKeys(cs), 1, <<>>)
               IN IF r.matched THEN Strip(r)
                  ELSE OrDefault(v, fn, NoMatchValue(v), r.calls)

\* switchCase(value, cases: object, defaultHandler?)
switchCaseObject(v, cs, fn) ==
  IF ~Readable(cs) THEN Throw(TypeError, <<>>)
  ELSE LET literalHandler == Get(cs, String(v))
       IN IF literalHandler # Undefined THEN Resolve(literalHandler, <<>>, <<>>)
          ELSE LET r == objectLoop(v, cs, ObjectKeys(cs), 1, <<>>)
               IN IF r.matched THEN Strip(r)
                  ELSE OrDefault(v, fn, NoMatchValue(v), r.calls)

\* switchCaseDiscriminator with the handler given no argument.
switchCaseDiscriminator_noArgument(v, discriminator, cs, fn) ==
  IF ~Readable(v) \/ ~Readable(cs) THEN Throw(TypeError, <<>>)
  ELSE LET discriminatorValue == String(Get(v, String(discriminator)))
           handlerOrValue == Get(cs, discriminatorValue)
       IN IF handlerOrValue # Undefined THEN Resolve(handlerOrValue, <<>>, <<>>)
          ELSE OrDefault(v, fn, NoMatchDiscriminator(discriminator, discriminatorValue), <<>>)

\* switchCase(value, discriminator, cases, defaultHandler?)
switchCaseDiscriminator(v, discriminator, cs, fn) ==
  IF ~Readable(v) \/ ~Readable(cs) THEN Throw(TypeError, <<>>)
  ELSE LET discriminatorValue == String(Get(v, String(discriminator)))
           handlerOrValue == Get(cs, discriminatorValue)
       IN IF handlerOrValue # Undefined THEN Resolve(handlerOrValue, <<v>>, <<>>)
          ELSE OrDefault(v, fn, NoMatchDiscriminator(discriminator, discriminatorValue), <<>>)

\* switchCase taking a second and a third argument that are both objects as
\* the discriminated-union form.
switchCase_mappingPair(v, discriminatorOrCases, casesOrDefault, defaultHandler) ==
  IF discriminatorOrCases = Undefined THEN Return(Builder, <<>>)
  ELSE IF discriminatorOrCases.t = "array"
       THEN switchCaseArray(v, discriminatorOrCases, casesOrDefault)
  ELSE IF typeof(discriminatorOrCases) = "object" /\ casesOrDefault.t # "object"
       THEN switchCaseObject(v, discriminatorOrCases, casesOrDefault)
  ELSE switchCaseDiscriminator(v, discriminatorOrCases, casesOrDefault, defaultHandler)

\* switchCase(value, discriminatorOrCases?, casesOrDefault?, defaultHandler?)
switchCase(v, discriminatorOrCases, casesOrDefault, defaultHandler) ==
  IF discriminatorOrCases = Undefined THEN Return(Builder, <<>>)
  ELSE IF discriminatorOrCases.t = "array"
       THEN switchCaseArray(v, discriminatorOrCases, casesOrDefault)
  ELSE IF typeof(discriminatorOrCases) = "object"
       THEN switchCaseObject(v, discriminatorOrCases, casesOrDefault)
  ELSE switchCaseDiscriminator(v, discriminatorOrCases, casesOrDefault, defaultHandler)

----------------------------------------------------------------------------
\* The inputs the model draws from

\* { kind: k }
Shape(k) == Obj(<<<<"kind", Str(k)>>>>)

Subjects ==
  {Str("a"), Str("b"), Str("R"), Str("toString"), Num(1), Undefined, Null,
   Shape("a"), Shape("toString"), Obj(<<>>)}

\* pAny = (v) => true, pIsA = (v) => v === "a"
Matches == {Str("a"), Fn("pAny"), Fn("pIsA")}

Handlers == {Str("R"), Fn("h1")}

DefaultFns == {Fn("d1"), Fn("d2")}

\* { match, handler }
CaseHandler(match, handler) == Obj(<<<<"match", match>>, <<"handler", handler>>>>)

CaseHandlers == {CaseHandler(m, h) : m \in Matches, h \in Handlers}

\* What a key of a cases object may hold: a result, a handler, a
\* { match, handler } pair, undefined or null.
EntryValues == Handlers \cup {Undefined, Null} \cup CaseHandlers

\* What a key of the cases object of a discriminated union may hold.
UnionValues == Handlers \cup {Undefined, Null}

Keys == {"a", "1", "x"}

\* The sequences over S of length at most n.
SeqsUpTo(S, n) == UNION {[1..k -> S] : k \in 0..n}

\* The objects with at most MaxEntries keys, each once, holding values of V.
ObjectsOver(V) ==
  {Obj(p) : p \in {q \in SeqsUpTo(Keys \X V, MaxEntries) :
                      \A i, j \in 1..Len(q) : i # j => q[i][1] # q[j][1]}}

\* The cases arrays: at most MaxEntries entries.
CasesArrays == {Arr(q) : q \in SeqsUpTo(CaseHandlers, MaxEntries)}

\* The argument lists <<value, a2, a3, a4>> of a switchCase call, by form.
ChainArgs == {<<v, Undefined, Undefined, Undefined>> : v \in Subjects}

ArrayArgs == Subjects \X CasesArrays \X {Undefined, Fn("d1")} \X {Undefined}

ObjectArgs == Subjects \X ObjectsOver(EntryValues) \X {Undefined, Fn("d1")} \X {Undefined}

DiscriminatorArgs ==
  Subjects \X {Str("kind")} \X ObjectsOver(UnionValues) \X {Undefined, Fn("d1")}

\* A few cases objects for the calls that pass two of them.
Mappings ==
  {Obj(<<>>), Obj(<<<<"a", Str("R")>>>>), Obj(<<<<"a", Fn("h1")>>>>),
   Obj(<<<<"x", CaseHandler(Fn("pAny"), Str("R"))>>>>)}

\* switchCase(value, mapping, mapping, defaultHandler?)
MappingPairArgs == Subjects \X Mappings \X Mappings \X {Undefined, Fn("d1")}

----------------------------------------------------------------------------
\* The cycle guard (src/src/utils.ts)

\* The objects of a heap are 1..MaxNodes; 0 stands for any value that is not
\* an object (a primitive, null, a function) and -1 for a missing property.
\* Every object may hold the properties x and y, enumerated in that order.
Nodes == 1..MaxNodes

Heaps == [Nodes -> [x : -1..MaxNodes, y : -1..MaxNodes]]

\* for (const key in obj): the keys of obj with what they hold.
Properties(h, n) ==
  (IF h[n].x # -1 THEN <<<<"x", h[n].x>>>> ELSE <<>>)
    \o (IF h[n].y # -1 THEN <<<<"y", h[n].y>>>> ELSE <<>>)

\* path.join(" -> ")
RECURSIVE Join(_)
Join(path) ==
  IF Len(path) = 0 THEN ""
  ELSE IF Len(path) = 1 THEN path[1]
  ELSE path[1] \o " -> " \o Join(Tail(path))

\* logCyclicError(obj, path, context): the record written to console.error
\* (without its timestamp).
logCyclicError(obj, path, context) ==
  [context |-> context, path |-> Join(path),
   objectType |-> IF obj \in Nodes THEN "Object" ELSE "unknown"]

CycleGuardIdle ==
  /\ heap = <<>>
  /\ stack = <<>>
  /\ seen = {}
  /\ logs = <<>>
  /\ ret = "none"
  /\ ncalls = 0
  /\ activations = 0

DispatcherIdle ==
  /\ op = "idle"
  /\ prevOp = "idle"
  /\ value = Undefined
  /\ arg2 = Undefined
  /\ arg3 = Undefined
  /\ arg4 = Undefined
  /\ hasBuilder = FALSE
  /\ cases = <<>>
  /\ defaultFn = Undefined
  /\ callArgs = <<>>
  /\ outcome = Return(Undefined, <<>>)

\* The object graph isCyclic is called on; its root is the object 1.
InitCyclic ==
  /\ DispatcherIdle
  /\ heap \in Heaps
  /\ stack = <<>>
  /\ seen = {}
  /\ logs = <<>>
  /\ ret = "none"
  /\ ncalls = 0
  /\ activations = 0

Top == stack[Len(stack)]

Pop == SubSeq(stack, 1, Len(stack) - 1)

\* The activation of isCyclic(obj, seen, path): i = 0 on entry, then the
\* number of the property the for loop is at.
Frame(obj, i, path) == [obj |-> obj, i |-> i, path |-> path]

\* A top-level call that is handed the set of the call before it.
IsCyclicCall_keepsSeen ==
  /\ stack = <<>>
  /\ ncalls < MaxTopCalls
  /\ ncalls' = ncalls + 1
  /\ activations' = 1
  /\ stack' = <<Frame(1, 0, <<"root">>)>>
  /\ seen' = seen
  /\ logs' = <<>>
  /\ ret' = "none"
  /\ UNCHANGED heap
  /\ UNCHANGED dispatcherVars

\* A top-level call isCyclic(root): seen = new WeakSet(), path = ["root"].
\* activations counts the activations of isCyclic the call has made.
IsCyclicCall ==
  /\ stack = <<>>
  /\ ncalls < MaxTopCalls
  /\ ncalls' = ncalls + 1
  /\ activations' = 1
  /\ stack' = <<Frame(1, 0, <<"root">>)>>
  /\ seen' = {}
  /\ logs' = <<>>
  /\ ret' = "none"
  /\ UNCHANGED heap
  /\ UNCHANGED dispatcherVars

\* The body up to the loop without seen.add(obj).
IsCyclicEnter_addsNothing ==
  /\ stack # <<>>
  /\ Top.i = 0
  /\ IF Top.obj = 0
     THEN /\ stack' = Pop
          /\ ret' = "false"
          /\ UNCHANGED <<seen, logs>>
     ELSE IF Top.obj \in seen
     THEN /\ logs' = Append(logs, logCyclicError(Top.obj, Top.path, "Cycle detected"))
          /\ stack' = Pop
          /\ ret' = "true"
          /\ UNCHANGED seen
     ELSE /\ stack' = [stack EXCEPT ![Len(stack)].i = 1]
          /\ UNCHANGED <<seen, logs, ret>>
  /\ UNCHANGED <<heap, ncalls, activations>>
  /\ UNCHANGED dispatcherVars

\* The body up to the loop: the test obj && typeof obj === "object", the
\* test seen.has(obj) with its diagnostic, and seen.add(obj).
IsCyclicEnter ==
  /\ stack # <<>>
  /\ Top.i = 0
  /\ IF Top.obj = 0
     THEN /\ stack' = Pop
          /\ ret' = "false"
          /\ UNCHANGED <<seen, logs>>
     ELSE IF Top.obj \in seen
     THEN /\ logs' = Append(logs, logCyclicError(Top.obj, Top.path, "Cycle detected"))
          /\ stack' = Pop
          /\ ret' = "true"
          /\ UNCHANGED seen
     ELSE /\ seen' = seen \cup {Top.obj}
          /\ stack' = [stack EXCEPT ![Len(stack)].i = 1]
          /\ UNCHANGED <<logs, ret>>
  /\ UNCHANGED <<heap, ncalls, activations>>
  /\ UNCHANGED dispatcherVars

\* One turn of the for loop: the recursive call on the next property, or
\* return false after the last.
IsCyclicIterate ==
  /\ stack # <<>>
  /\ Top.i >= 1
  /\ ret = "none"
  /\ LET props == Properties(heap, Top.obj)
     IN IF Top.i <= Len(props)
        THEN /\ stack' = Append(stack, Frame(props[Top.i][2], 0,
                                             Append(Top.path, props[Top.i][1])))
             /\ ret' = ret
             /\ activations' = activations + 1
        ELSE /\ stack' = Pop
             /\ ret' = "false"
             /\ activations' = activations
  /\ UNCHANGED <<heap, seen, logs, ncalls>>
  /\ UNCHANGED dispatcherVars

\* The loop going on to the next property whatever the recursive call returned.
IsCyclicResume_goesOn ==
  /\ stack # <<>>
  /\ Top.i >= 1
  /\ ret # "none"
  /\ stack' = [stack EXCEPT ![Len(stack)].i = Top.i + 1]
  /\ ret' = "none"
  /\ UNCHANGED <<heap, seen, logs, ncalls, activations>>
  /\ UNCHANGED dispatcherVars

\* The recursive call has returned: if (isCyclic(...)) return true.
IsCyclicResume ==
  /\ stack # <<>>
  /\ Top.i >= 1
  /\ ret # "none"
  /\ IF ret = "true"
     THEN /\ stack' = Pop
          /\ ret' = ret
     ELSE /\ stack' = [stack EXCEPT ![Len(stack)].i = Top.i + 1]
          /\ ret' = "none"
  /\ UNCHANGED <<heap, seen, logs, ncalls, activations>>
  /\ UNCHANGED dispatcherVars

NextCyclic ==
  \/ IsCyclicCall
  \/ IsCyclicEnter
  \/ IsCyclicIterate
  \/ IsCyclicResume

SpecCyclic == InitCyclic /\ [][NextCyclic]_vars

\* isCyclic is synchronous code on one thread: a call that has begun keeps
\* taking its next step.
FairSpecCyclic == SpecCyclic /\ WF_vars(NextCyclic)

\* The top-level call has returned.
CyclicDone == ncalls > 0 /\ stack = <<>>

----------------------------------------------------------------------------
\* The state machine.  A behaviour follows one switchCase call: its arguments
\* (drawn by Init), what it did (outcome) and, when it returned a builder,
\* the closure variables of that builder (cases, defaultFn), the builder
\* method called last (op, callArgs) and the one called before it (prevOp).

Init ==
  /\ op = "start"
  /\ prevOp = "start"
  /\ \E a \in ChainArgs \cup ArrayArgs \cup ObjectArgs \cup DiscriminatorArgs
                \cup MappingPairArgs :
       /\ value = a[1]
       /\ arg2 = a[2]
       /\ arg3 = a[3]
       /\ arg4 = a[4]
  /\ hasBuilder = FALSE
  /\ cases = <<>>
  /\ defaultFn = Undefined
  /\ callArgs = <<>>
  /\ outcome = Return(Undefined, <<>>)
  /\ CycleGuardIdle

\* The call switchCase(value, arg2, arg3, arg4).
Invoke ==
  /\ op = "start"
  /\ op' = "switchCase"
  /\ prevOp' = op
  /\ hasBuilder' = (arg2 = Undefined)
  /\ outcome' = switchCase(value, arg2, arg3, arg4)
  /\ UNCHANGED <<value, arg2, arg3, arg4, cases, defaultFn, callArgs>>
  /\ UNCHANGED cycleVars

\* switchCase(value): declares cases = [] and defaultFn, returns the builder.
SwitchCaseChain == arg2 = Undefined /\ Invoke

SwitchCaseArray == arg2.t = "array" /\ Invoke

SwitchCaseObject == arg2.t = "object" /\ Invoke

SwitchCaseDiscriminator == arg2.t = "string" /\ Invoke

\* builder.case(match, handler)
BuilderCase ==
  /\ hasBuilder
  /\ Len(cases) < MaxCases
  /\ \E match \in Matches, handler \in Handlers :
       /\ cases' = casePush(cases, match, handler)
       /\ callArgs' = <<match, handler>>
  /\ defaultFn' = defaultFn
  /\ op' = "case"
  /\ prevOp' = op
  /\ outcome' = returnThis(Builder)
  /\ UNCHANGED <<value, arg2, arg3, arg4, hasBuilder>>
  /\ UNCHANGED cycleVars

\* builder.default(handler)
BuilderDefault ==
  /\ hasBuilder
  /\ \E handler \in DefaultFns :
       /\ defaultFn' = defaultSet(defaultFn, handler)
       /\ callArgs' = <<handler>>
  /\ cases' = cases
  /\ op' = "default"
  /\ prevOp' = op
  /\ outcome' = returnThis(Builder)
  /\ UNCHANGED <<value, arg2, arg3, arg4, hasBuilder>>
  /\ UNCHANGED cycleVars

\* run() as a loop that consumes the entries it has tried (cases.shift).
BuilderRun_consumes ==
  /\ hasBuilder
  /\ op' = "run"
  /\ prevOp' = op
  /\ callArgs' = <<>>
  /\ outcome' = run(value, cases, defaultFn)
  /\ cases' = <<>>
  /\ UNCHANGED <<value, arg2, arg3, arg4, hasBuilder, defaultFn>>
  /\ UNCHANGED cycleVars

\* builder.run()
BuilderRun ==
  /\ hasBuilder
  /\ op' = "run"
  /\ prevOp' = op
  /\ callArgs' = <<>>
  /\ outcome' = run(value, cases, defaultFn)
  /\ UNCHANGED <<value, arg2, arg3, arg4, hasBuilder, cases, defaultFn>>
  /\ UNCHANGED cycleVars

\* builder.exhaustive()
BuilderExhaustive ==
  /\ hasBuilder
  /\ op' = "exhaustive"
  /\ prevOp' = op
  /\ callArgs' = <<>>
  /\ outcome' = exhaustive(value, cases, defaultFn)
  /\ UNCHANGED <<value, arg2, arg3, arg4, hasBuilder, cases, defaultFn>>
  /\ UNCHANGED cycleVars

Next ==
  \/ SwitchCaseChain
  \/ SwitchCaseArray
  \/ SwitchCaseObject
  \/ SwitchCaseDiscriminator
  \/ BuilderCase
  \/ BuilderDefault
  \/ BuilderRun
  \/ BuilderExhaustive

Spec == Init /\ [][Next]_vars

----------------------------------------------------------------------------
\* What the claims speak of

\* The three object-based and array-based forms of a finished call.
LiteralMode == op = "switchCase" /\ arg2.t = "object"

ArrayMode == op = "switchCase" /\ arg2.t = "array"

DiscriminatorMode == op = "switchCase" /\ arg2.t = "string"

IsCallable(v) == v.t = "function"

\* The keys the caller declared in the cases object o.
DeclaredKeys(o) == {o.props[i][1] : i \in 1..Len(o.props)}

\* What the caller declared under the key k of o.
Declared(o, k) == (CHOOSE e \in {o.props[i] : i \in 1..Len(o.props)} : e[1] = k)[2]

\* The entry is a { match, handler } pair.
IsPair(e) == e.t = "object" /\ DeclaredKeys(e) = {"match", "handler"}

\* Whether the match m accepts the subject v: literal equality if m is not
\* callable, else m(v).
Accepts(m, v) == IF IsCallable(m) THEN Apply(m, <<v>>) = Bool(TRUE) ELSE m = v

\* The calls of log made to handlers or default handlers.
HandlerCalls(log) ==
  SelectSeq(log, LAMBDA c : c.fn \in {Fn("h1"), Fn("d1"), Fn("d2")})

\* The calls of log made to predicates.
PredicateCalls(log) == SelectSeq(log, LAMBDA c : c.fn \in {Fn("pAny"), Fn("pIsA")})

\* The call returned what the handler h resolves to when given the arguments
\* args, and called no other handler and no default handler.
ResolvedTo(o, h, args) ==
  /\ o.kind = "return"
  /\ o.val = (IF IsCallable(h) THEN Ret(h.id, args) ELSE h)
  /\ HandlerCalls(o.calls) = (IF IsCallable(h) THEN <<[fn |-> h, args |-> args]>> ELSE <<>>)

\* The call raised NoMatch with the given message, having called no handler.
RaisedNoMatch(o, message) ==
  /\ o.kind = "throw"
  /\ o.val = [t |-> "error", name |-> "Error", message |-> message]
  /\ HandlerCalls(o.calls) = <<>>

\* C1: in literal/predicate map mode, a cases object that declares the key
\* String(subject) with a defined value makes the call return that value, or
\* what calling it with no arguments returns when it is callable, whatever
\* the other entries are; no predicate and no default handler is called.
C1_LiteralKeyWins ==
  (/\ LiteralMode
   /\ String(value) \in DeclaredKeys(arg2)
   /\ Declared(arg2, String(value)) # Undefined)
  => LET e == Declared(arg2, String(value))
     IN outcome = IF IsCallable(e)
                  THEN Return(Ret(e.id, <<>>), <<[fn |-> e, args |-> <<>>]>>)
                  ELSE Return(e, <<>>)

\* C1 witness: the subject "a" under the key "a" holding a handler, behind an
\* earlier { match, handler } entry whose match accepts "a"; a default is given.
C1_Witness ==
  /\ LiteralMode
  /\ value = Str("a")
  /\ arg3 = Fn("d1")
  /\ Len(arg2.props) = 2
  /\ arg2.props[1] = <<"x", CaseHandler(Fn("pAny"), Fn("h1"))>>
  /\ arg2.props[2] = <<"a", Fn("h1")>>
  /\ outcome = Return(Ret("h1", <<>>), <<[fn |-> Fn("h1"), args |-> <<>>]>>)

\* A cases object all of whose entries are { match, handler } pairs.
PredicateMapMode ==
  LiteralMode /\ \A i \in 1..Len(arg2.props) : IsPair(arg2.props[i][2])

\* The { match, handler } pairs among the entries of the sequence es.
Pairs(es) ==
  LET ps == SelectSeq(es, IsPair)
  IN [i \in 1..Len(ps) |->
        [match |-> Declared(ps[i], "match"), handler |-> Declared(ps[i], "handler")]]

\* The entries of the cases object o in the order they were declared in, and
\* in the order Object.keys lists them in.
InDeclarationOrder(o) == [i \in 1..Len(o.props) |-> o.props[i][2]]

InKeysOrder(o) == [i \in 1..Len(o.props) |-> Declared(o, ObjectKeys(o)[i])]

\* The entries that accept the subject v.
Accepting(es, v) == {i \in 1..Len(es) : Accepts(es[i].match, v)}

First(S) == CHOOSE i \in S : \A j \in S : i <= j

\* When two or more of the entries es accept v, the call resolved the handler
\* of the earliest and called no other handler.
FirstMatchWins(es, v, o) ==
  Cardinality(Accepting(es, v)) >= 2
    => ResolvedTo(o, es[First(Accepting(es, v))].handler, <<v>>)

\* C2 as stated: first-match-wins in declaration order, in predicate map
\* mode, array mode (its matches being predicates, as its overload declares)
\* and Builder.run().
C2_FirstMatchWins_AsStated ==
  /\ PredicateMapMode => FirstMatchWins(Pairs(InDeclarationOrder(arg2)), value, outcome)
  /\ (ArrayMode /\ \A i \in 1..Len(arg2.items) : IsCallable(Pairs(arg2.items)[i].match))
       => FirstMatchWins(Pairs(arg2.items), value, outcome)
  /\ op = "run" => FirstMatchWins(cases, value, outcome)

\* Where first-match-wins (C2) does hold: in Builder.run() always; in array
\* mode when every match up to the first accepting entry is callable; in
\* predicate map mode when cases[String(subject)] is undefined, the earliest
\* entry being the earliest in Object.keys order (integer-like labels
\* ascending, then the other labels in insertion order).
C2_FirstMatchWins_WhereItHolds ==
  /\ (PredicateMapMode /\ Get(arg2, String(value)) = Undefined)
       => FirstMatchWins(Pairs(InKeysOrder(arg2)), value, outcome)
  /\ (/\ ArrayMode
      /\ \A i \in 1..Len(arg2.items) :
           (\A j \in 1..(i - 1) : ~Accepts(Pairs(arg2.items)[j].match, value))
             => IsCallable(Pairs(arg2.items)[i].match))
       => FirstMatchWins(Pairs(arg2.items), value, outcome)
  /\ op = "run" => FirstMatchWins(cases, value, outcome)

\* A predicate map whose label "1" was declared after the label "x": both
\* matches accept the subject "b", and the entry under "1" wins.
C2_KeysOrderReached ==
  /\ PredicateMapMode
  /\ value = Str("b")
  /\ Len(arg2.props) = 2
  /\ arg2.props[1] = <<"x", CaseHandler(Fn("pAny"), Fn("h1"))>>
  /\ arg2.props[2] = <<"1", CaseHandler(Fn("pAny"), Str("R"))>>
  /\ outcome.kind = "return"
  /\ outcome.val = Str("R")

\* subject[key] for a subject that is neither null nor undefined.
Field(v, k) ==
  IF v.t = "object" /\ k \in DeclaredKeys(v) THEN Declared(v, k) ELSE Undefined

\* No case of the finished call matches the subject.
NoCaseMatches ==
  /\ LiteralMode =>
       /\ ~(String(value) \in DeclaredKeys(arg2) /\ Declared(arg2, String(value)) # Undefined)
       /\ Accepting(Pairs(InDeclarationOrder(arg2)), value) = {}
  /\ ArrayMode =>
       /\ \A i \in 1..Len(arg2.items) : IsCallable(Pairs(arg2.items)[i].match)
       /\ Accepting(Pairs(arg2.items), value) = {}
  /\ DiscriminatorMode =>
       /\ Readable(value)
       /\ arg3.t = "object"
       /\ ~(/\ String(Field(value, arg2.s)) \in DeclaredKeys(arg3)
            /\ Declared(arg3, String(Field(value, arg2.s))) # Undefined)
  /\ op \in {"run", "exhaustive"} => Accepting(cases, value) = {}

\* The finished call has arguments of the types its overload declares: no
\* entry is null or undefined, and the subject of a literal map is a string
\* or a number.
AsDeclared ==
  /\ LiteralMode =>
       /\ \A i \in 1..Len(arg2.props) : arg2.props[i][2] \notin {Undefined, Null}
       /\ PredicateMapMode \/ value.t \in {"string", "number"}
  /\ DiscriminatorMode =>
       \A i \in 1..Len(arg3.props) : arg3.props[i][2] \notin {Undefined, Null}

Finished == op \in {"run", "exhaustive"} \/ (op = "switchCase" /\ arg2 # Undefined)

\* The default handler the finished call was given (undefined if none).
GivenDefault ==
  IF op \in {"run", "exhaustive"} THEN defaultFn
  ELSE IF DiscriminatorMode THEN arg4
  ELSE arg3

\* C3 (stated for the calls the overloads declare): when no case matches and
\* no default handler was supplied, the call raises NoMatch: 'No matching case for value: <JSON of the subject>', and in
\* discriminator mode 'No matching case for <key>: <String(subject[key])>'.
C3_NoMatchRaises ==
  (Finished /\ AsDeclared /\ NoCaseMatches /\ GivenDefault = Undefined)
    => RaisedNoMatch(outcome,
         IF DiscriminatorMode
         THEN "No matching case for " \o arg2.s \o ": " \o String(Field(value, arg2.s))
         ELSE "No matching case for value: " \o String(JSONstringify(value)))

\* C4 (stated for the calls the overloads declare): when no case matches and
\* a default handler was supplied, the call
\* returns defaultHandler(subject), the default handler having been called
\* once, with the subject.
C4_DefaultUsed ==
  (Finished /\ AsDeclared /\ NoCaseMatches /\ GivenDefault # Undefined)
    => ResolvedTo(outcome, GivenDefault, <<value>>)

\* C5 as stated: in discriminator mode a cases object that has the key
\* String(subject[discriminatorKey]) makes the call return the entry, or what
\* calling it with the subject returns; the default handler is called only
\* when the key is absent.
C5_Discriminator_AsStated ==
  (DiscriminatorMode /\ Readable(value))
    => LET key == String(Field(value, arg2.s))
       IN /\ key \in DeclaredKeys(arg3)
               => ResolvedTo(outcome, Declared(arg3, key), <<value>>)
          /\ (\E i \in 1..Len(outcome.calls) : outcome.calls[i].fn = arg4)
               => key \notin DeclaredKeys(arg3)

\* C5 amended: a key that holds undefined counts as absent: the entry decides
\* when the key is declared with a defined value, and the default handler is
\* called only when the key is absent or holds undefined.
C5_Discriminator ==
  (DiscriminatorMode /\ Readable(value))
    => LET key == String(Field(value, arg2.s))
           defined == key \in DeclaredKeys(arg3) /\ Declared(arg3, key) # Undefined
       IN /\ defined => ResolvedTo(outcome, Declared(arg3, key), <<value>>)
          /\ (\E i \in 1..Len(outcome.calls) : outcome.calls[i].fn = arg4) => ~defined
          /\ (outcome.kind = "throw" /\ outcome.val.name = "Error")
               => outcome.val.message = "No matching case for kind: " \o key

\* C5 witness: { kind: "a" } against { a: undefined } with a default: the key
\* is declared, and the default handler decides.
C5_Witness ==
  /\ DiscriminatorMode
  /\ value = Shape("a")
  /\ arg3 = Obj(<<<<"a", Undefined>>>>)
  /\ arg4 = Fn("d1")
  /\ outcome = Return(Ret("d1", <<value>>), <<[fn |-> Fn("d1"), args |-> <<value>>]>>)

\* The NoMatch error of the builder for the subject v.
NoMatchOf(v) ==
  [t |-> "error", name |-> "Error",
   message |-> "No matching case for value: " \o String(JSONstringify(v))]

\* C6: run() and exhaustive() leave the builder's entries and default handler
\* as they are, and a run() that follows a run() on the unchanged builder
\* makes the same calls, from the first entry on, and ends the same way.
C6_RunRepeatable ==
  [][/\ op' \in {"run", "exhaustive"} => (cases' = cases /\ defaultFn' = defaultFn)
     /\ (op = "run" /\ op' = "run") => outcome' = outcome]_vars

\* C6 witness: a run() that follows a run() on a builder of two entries, the
\* first a predicate that rejects the subject: it is called again.
C6_Witness ==
  /\ op = "run"
  /\ prevOp = "run"
  /\ value = Str("b")
  /\ Len(cases) = 2
  /\ cases[1].match = Fn("pIsA")
  /\ cases[2].match = Fn("pAny")
  /\ Len(outcome.calls) >= 2
  /\ outcome.calls[1].fn = Fn("pIsA")

\* C7: on the same builder state exhaustive() and run() end the same way: the
\* same result, or the same NoMatch error 'No matching case for value: ...'
\* when no entry matches and no default is set.
C7_ExhaustiveIsRun ==
  [][/\ ((op = "run" /\ op' = "exhaustive") \/ (op = "exhaustive" /\ op' = "run"))
          => outcome' = outcome
     /\ (op' = "exhaustive" /\ Accepting(cases, value) = {} /\ defaultFn = Undefined)
          => outcome' = Throw(NoMatchOf(value), PredicateCalls(outcome'.calls))]_vars

\* C7 witness: exhaustive() after run() on a builder with an entry that does
\* not match and no default: it raised NoMatch.
C7_Witness ==
  /\ op = "exhaustive"
  /\ prevOp = "run"
  /\ Len(cases) >= 1
  /\ defaultFn = Undefined
  /\ outcome.kind = "throw"
  /\ outcome.val = NoMatchOf(value)

\* C8: a new builder has no entry and no default handler; case(match, handler)
\* appends that one entry and leaves the others and the default handler as
\* they are; default(handler) sets the default handler and leaves the entries
\* as they are; both return the builder they were called on; and run() calls
\* no default handler when an entry matches, whenever it was added.
C8_BuilderAccumulates ==
  [][/\ (op' = "switchCase" /\ hasBuilder') => (cases' = <<>> /\ defaultFn' = Undefined)
     /\ op' = "case" =>
          /\ cases' = cases \o <<[match |-> callArgs'[1], handler |-> callArgs'[2]]>>
          /\ defaultFn' = defaultFn
          /\ outcome' = Return(Builder, <<>>)
     /\ op' = "default" =>
          /\ defaultFn' = callArgs'[1]
          /\ cases' = cases
          /\ outcome' = Return(Builder, <<>>)
     /\ (op' = "run" /\ Accepting(cases, value) # {}) =>
          \A i \in 1..Len(outcome'.calls) : outcome'.calls[i].fn \notin DefaultFns]_vars

\* C8 witness: default(d2) after default(d1), then a case, then run(): the
\* case added after the default handler matches and decides.
C8_Witness ==
  /\ op = "run"
  /\ defaultFn = Fn("d2")
  /\ cases = <<[match |-> Fn("pIsA"), handler |-> Str("R")],
               [match |-> Fn("pAny"), handler |-> Fn("h1")]>>
  /\ value = Str("b")
  /\ outcome.val = Ret("h1", <<value>>)

\* The objects the object n of the heap h refers to.
Refs(h, n) == {h[n].x, h[n].y} \cap Nodes

\* The objects reachable from the objects S in at most k references.
RECURSIVE Reachable(_, _, _)
Reachable(h, S, k) ==
  IF k = 0 THEN S
  ELSE Reachable(h, S \cup UNION {Refs(h, n) : n \in S}, k - 1)

\* The graph reachable from the root holds an object reachable from itself.
HasCycle(h) ==
  \E n \in Reachable(h, {1}, MaxNodes) : n \in Reachable(h, Refs(h, n), MaxNodes)

\* C9: isCyclic(root) returns true exactly when the object graph reachable
\* from root holds a reference cycle, and false for every acyclic graph,
\* diamonds included.
C9_CyclicExactly ==
  CyclicDone => (ret = "true" <=> HasCycle(heap))

\* The first entry of es that ends the loop of the array-based form on the
\* subject v: its match is not callable, or it is callable and accepts v
\* (0 if there is none).
Deciding(es, v) ==
  LET S == {i \in 1..Len(es) : ~IsCallable(es[i].match) \/ Accepts(es[i].match, v)}
  IN IF S = {} THEN 0 ELSE First(S)

C11_KeyedEntryResolved ==
  (/\ LiteralMode
   /\ String(value) \in DeclaredKeys(arg2)
   /\ IsPair(Declared(arg2, String(value))))
  => LET e == Declared(arg2, String(value))
     IN /\ ResolvedTo(outcome, Declared(e, "handler"), <<value>>)
        /\ outcome.val # e

\* A cases object made only of plain results and functions.
PlainMapMode ==
  LiteralMode /\ \A i \in 1..Len(arg2.props) : arg2.props[i][2] \in Handlers

\* C12: in literal/predicate map mode, when no key equals String(subject)
\* (and the keyed lookup found nothing), the loop over the entries selects
\* no entry that is a plain result or a function, whatever the subject,
\* undefined and null included: a cases object made only of such entries
\* ends in defaultHandler(subject), or NoMatch when no default is given.
C12_OnlyPairsSelected ==
  (/\ PlainMapMode
   /\ String(value) \notin DeclaredKeys(arg2)
   /\ Get(arg2, String(value)) = Undefined)
  => IF arg3 = Undefined
     THEN RaisedNoMatch(outcome, NoMatchOf(value).message)
     ELSE ResolvedTo(outcome, arg3, <<value>>)

\* The finished call was given two cases objects, as second and as third
\* argument.
MappingPair == op = "switchCase" /\ arg2.t = "object" /\ arg3.t = "object"

\* C13 as stated: a call whose second and third argument are both mappings is
\* treated as discriminator map mode, the second argument being the key name,
\* the third the case set and the fourth the default handler (stated for the
\* subjects that are strings or numbers).
C13_MappingPair_AsStated ==
  (MappingPair /\ value.t \in {"string", "number"})
    => outcome = switchCaseDiscriminator(value, arg2, arg3, arg4)

\* C13 amended: a second argument that is a mapping is always the case set
\* itself (literal/predicate map mode), whatever the third argument is: a
\* plain entry under the key String(subject) decides, the fourth argument is
\* never called, and a third argument that is a mapping is called as the
\* default handler when nothing matches, which fails with a TypeError and
\* never with NoMatch.  Discriminator map mode is chosen only by a second
\* argument that is neither undefined nor an object.
C13_MappingIsCaseSet ==
  /\ MappingPair =>
       /\ (/\ String(value) \in DeclaredKeys(arg2)
           /\ Declared(arg2, String(value)) \in Handlers)
            => LET e == Declared(arg2, String(value))
               IN outcome = IF IsCallable(e)
                            THEN Return(Ret(e.id, <<>>), <<[fn |-> e, args |-> <<>>]>>)
                            ELSE Return(e, <<>>)
       /\ \A i \in 1..Len(outcome.calls) : outcome.calls[i].fn # Fn("d1")
       /\ outcome.kind = "throw" => outcome.val = TypeError
  /\ (op = "switchCase" /\ outcome.kind = "throw" /\ outcome.val.name = "Error")
       => (outcome.val.message = "No matching case for kind: "
                                   \o String(Field(value, "kind"))
             <=> arg2 = Str("kind"))

\* C13 witness: switchCase("b", { a: "R" }, { a: h1 }, d1): the third
\* argument is called as the default handler, and the call fails with a
\* TypeError.
C13_Witness ==
  /\ MappingPair
  /\ value = Str("b")
  /\ arg2 = Obj(<<<<"a", Str("R")>>>>)
  /\ arg3 = Obj(<<<<"a", Fn("h1")>>>>)
  /\ arg4 = Fn("d1")
  /\ outcome.kind = "throw"
  /\ outcome.val = TypeError

\* The objects reachable from the root of the heap h.
FromRoot(h) == Reachable(h, {1}, MaxNodes)

\* The number of properties of reachable objects that hold the object n.
InDegree(h, n) ==
  Cardinality({e \in FromRoot(h) \X {"x", "y"} : h[e[1]][e[2]] = n})

\* Some object is reached twice by a traversal from the root: the root is
\* referred to, or another object is referred to from two places.
ReachedTwice(h) ==
  \E n \in FromRoot(h) : InDegree(h, n) >= (IF n = 1 THEN 1 ELSE 2)

\* C14: within one top-level isCyclic call the seen-set only grows, and the
\* call returns true as soon as an object it holds is reached again, so it
\* returns true exactly when some object is reached twice, a sub-object that
\* two sibling branches refer to included; every top-level call starts with
\* an empty seen-set.
C14_SeenShared ==
  /\ [](CyclicDone => (ret = "true" <=> ReachedTwice(heap)))
  /\ [][/\ stack # <<>> => seen \subseteq seen'
        /\ stack = <<>> => seen' = {}
        /\ (stack # <<>> /\ Top.i = 0 /\ Top.obj \in seen) => ret' = "true"]_vars

\* C14 witness: the second call on { x: s, y: s } with s = {} has returned
\* true, and the graph has no cycle.
C14_Witness ==
  /\ CyclicDone
  /\ ncalls = 2
  /\ heap[1] = [x |-> 2, y |-> 2]
  /\ heap[2] = [x |-> -1, y |-> -1]
  /\ ~HasCycle(heap)
  /\ seen = {1, 2}
  /\ ret = "true"

\* The property names that lead from the root to the activation on top of
\* the stack st: each activation below it is at the property it called
\* isCyclic on.
NamesTo(h, st) ==
  [k \in 1..(Len(st) - 1) |-> Properties(h, st[k].obj)[st[k].i][1]]

\* The object the property names lead to from the object n.
RECURSIVE Walk(_, _, _)
Walk(h, n, names) ==
  IF names = <<>> THEN n ELSE Walk(h, h[n][Head(names)], Tail(names))

\* C15: a top-level isCyclic call emits one diagnostic when it returns true
\* and none when it returns false.  The diagnostic is emitted when an object
\* already seen is reached, its path is 'root' followed by the property names
\* that lead to this second visit, and after it no property is traversed:
\* every enclosing call returns true at once.
C15_OneDiagnostic ==
  /\ [](CyclicDone => Len(logs) = (IF ret = "true" THEN 1 ELSE 0))
  /\ [][stack # <<>> =>
          /\ logs' # logs =>
               /\ Top.i = 0
               /\ Top.obj \in seen
               /\ Walk(heap, 1, NamesTo(heap, stack)) = Top.obj
               /\ logs' = <<[context |-> "Cycle detected",
                             path |-> Join(<<"root">> \o NamesTo(heap, stack)),
                             objectType |-> "Object"]>>
          /\ logs # <<>> =>
               /\ ret' = "true"
               /\ stack' = Pop
               /\ seen' = seen
               /\ activations' = activations]_vars

\* C15 witness: isCyclic(a) with a.y = b and b.y = a has returned true with
\* the one diagnostic, for the path root -> y -> y.
C15_Witness ==
  /\ CyclicDone
  /\ heap[1] = [x |-> 0, y |-> 2]
  /\ heap[2] = [x |-> -1, y |-> 1]
  /\ ret = "true"
  /\ logs = <<[context |-> "Cycle detected", path |-> "root -> y -> y",
               objectType |-> "Object"]>>

\* The number of properties of the objects of the heap h.
Edges(h) == Cardinality({e \in Nodes \X {"x", "y"} : h[e[1]][e[2]] # -1})

\* C16: isCyclic terminates on every finite object graph, cycles and
\* self-references included: an object is expanded once at most, the number
\* of activations is at most the number of properties plus one (and their
\* depth at most the number of objects plus one), and every call that has
\* begun ends by returning true or false.
C16_Terminates ==
  /\ [](activations <= Edges(heap) + 1 /\ Len(stack) <= MaxNodes + 1)
  /\ [][(stack # <<>> /\ seen' # seen)
          => (Top.obj \notin seen /\ seen' = seen \cup {Top.obj})]_vars
  /\ (stack # <<>>) ~> (stack = <<>> /\ ret \in {"true", "false"})

\* C16 witness: isCyclic(a) with a.x = b and b.x = b, a self-reference, has
\* returned true after three activations.
C16_Witness ==
  /\ CyclicDone
  /\ heap[1] = [x |-> 2, y |-> 0]
  /\ heap[2] = [x |-> 2, y |-> 0]
  /\ HasCycle(heap)
  /\ activations = 3
  /\ ret = "true"

\* The functions every cases object inherits from Object.prototype.
Inherited == {ObjectPrototype("toString"), ObjectPrototype("constructor")}

\* The key the finished call looks up, and the cases object it looks it up in.
LookupKey == IF DiscriminatorMode THEN String(Field(value, arg2.s)) ELSE String(value)

LookupCases == IF DiscriminatorMode THEN arg3 ELSE arg2

\* C17: the keyed lookups of literal map mode and discriminator map mode hit
\* only the keys the caller declared: a key that is not declared, such as
\* 'toString' or 'constructor', is not found, and the call neither calls nor
\* returns what the cases object inherits under it.
C17_OnlyDeclaredKeys ==
  (/\ LiteralMode \/ (DiscriminatorMode /\ Readable(value) /\ arg3.t = "object")
   /\ LookupKey \notin DeclaredKeys(LookupCases))
  => /\ \A i \in 1..Len(outcome.calls) : outcome.calls[i].fn \notin Inherited
     /\ outcome.kind = "return" => outcome.val \notin Inherited

====
